---- MODULE Spec2Model ----
(***************************************************************************)
(* Model of src/elements.py: the value types (Axis, Side, Quantity,       *)
(* Material, Dimension, CoordSet), Layer and its openings (LayerMinus,    *)
(* Window, Door) and the Wall aggregate.                                  *)
(*                                                                         *)
(* Python objects are records; a failed call is a result whose st field   *)
(* names the exception raised ("AssertionError", "TypeError") and a       *)
(* successful one has st = "ok".  assert statements are executed (the     *)
(* interpreter's default mode).  Numbers are unbounded Python ints.       *)
(* Wall._check_layer (a header without a body), Wall.coords (a pandas     *)
(* computation) and Connection are not modelled.                          *)
(***************************************************************************)
EXTENDS Integers, Sequences, FiniteSets

VARIABLES
    dimObj,     \* the Dimension instance under test: <<>> or <<d>>
    layer,      \* the Layer instance under test: <<>> or <<l>>
    held,       \* the Dimension objects made by the layer's last dimensions() call
    nScaled,    \* calls of Layer.scaled on the layer so far: 0, 1, or 2 for more
    constructed,\* whether Wall.__init__ has returned a Wall
    layers,     \* Wall._layers
    prev,       \* Wall._layers before the last Wall operation
    ret,        \* the last call: operation, argument, outcome, returned number
    retDims     \* the last call's returned sequence (of Dimensions or numbers)

vars == <<dimObj, layer, held, nScaled, constructed, layers, prev, ret, retDims>>

(***************************************************************************)
(* Bounds of the model.                                                    *)
(***************************************************************************)
MaxQuantity == 3
MaxScale == 2
MaxCoord == 2
MaxPrice == 2
MaxLayers == 3

(***************************************************************************)
(* Enumerations.                                                           *)
(***************************************************************************)
Quantity == {"m3", "m2", "peace"}
Side == {"xy+", "xy-", "xz-", "xz+", "yz-", "yz+"}
Axis == {"l", "w", "h"}

Abs(n) == IF n < 0 THEN -n ELSE n

\* The record kept of a call.
Ret(op, arg, st, tag, val) ==
    [op |-> op, arg |-> arg, name |-> "", st |-> st, tag |-> tag, val |-> val]

NoRet == Ret("none", 0, "ok", "none", 0)

(***************************************************************************)
(* Dimension                                                               *)
(***************************************************************************)
\* __post_init__: the outcome of constructing Dimension(axis, quantity).
Dimension_post_init(axis, quantity) ==
    IF axis \notin Axis THEN "AssertionError"
    ELSE IF ~(quantity > 0) THEN "AssertionError"
    ELSE "ok"

\* Dimension(axis, quantity): _is_scaled takes its default, False.
Dimension(axis, quantity) ==
    [st  |-> Dimension_post_init(axis, quantity),
     obj |-> [axis |-> axis, quantity |-> quantity, is_scaled |-> FALSE]]

\* A plausible slip: the flag is never set.
Dimension_scaled_noflip(d, scale) ==
    IF ~(scale > 0) THEN [st |-> "AssertionError", val |-> 0, obj |-> d]
    ELSE IF d.is_scaled THEN [st |-> "AssertionError", val |-> 0, obj |-> d]
    ELSE [st |-> "ok", val |-> d.quantity * scale, obj |-> d]

\* d.scaled(scale): the outcome, the number returned and d after the call.
Dimension_scaled(d, scale) ==
    IF ~(scale > 0) THEN [st |-> "AssertionError", val |-> 0, obj |-> d]
    ELSE IF d.is_scaled THEN [st |-> "AssertionError", val |-> 0, obj |-> d]
    ELSE [st  |-> "ok",
          val |-> d.quantity * scale,
          obj |-> [d EXCEPT !.is_scaled = TRUE]]

\* a + b for two Dimensions.
Dimension_add(a, b) ==
    IF a.axis # b.axis
    THEN [st |-> "AssertionError", obj |-> a]
    ELSE Dimension(a.axis, a.quantity + b.quantity)

ScaleArgs == (-1) .. MaxScale
QuantityArgs == (-1) .. MaxQuantity

\* d = Dimension(axis, q)
DimensionNew ==
    /\ dimObj = <<>>
    /\ \E axis \in Axis, q \in QuantityArgs :
         LET r == Dimension(axis, q) IN
         /\ dimObj' = IF r.st = "ok" THEN <<r.obj>> ELSE <<>>
         /\ ret' = Ret("Dimension", q, r.st, "none", 0)
    /\ UNCHANGED <<layer, held, nScaled, constructed, layers, prev, retDims>>

\* d.scaled(f)
DimensionScaled ==
    /\ dimObj # <<>>
    /\ \E f \in ScaleArgs :
         LET r == Dimension_scaled(dimObj[1], f) IN
         /\ dimObj' = <<r.obj>>
         /\ ret' = Ret("Dimension.scaled", f, r.st,
                       IF r.st = "ok" THEN "int" ELSE "none", r.val)
    /\ UNCHANGED <<layer, held, nScaled, constructed, layers, prev, retDims>>

\* d + Dimension(axis, q)
DimensionAdd ==
    /\ dimObj # <<>>
    /\ \E axis \in Axis, q \in 1 .. MaxQuantity :
         LET r == Dimension_add(dimObj[1], Dimension(axis, q).obj) IN
         /\ ret' = Ret("Dimension.__add__", q, r.st,
                       IF r.st = "ok" THEN "Dimension" ELSE "none", 0)
         /\ retDims' = IF r.st = "ok" THEN <<r.obj>> ELSE <<>>
    /\ UNCHANGED <<dimObj, layer, held, nScaled, constructed, layers, prev>>

InitDim ==
    /\ dimObj = <<>>
    /\ layer = <<>>
    /\ held = <<>>
    /\ nScaled = 0
    /\ constructed = FALSE
    /\ layers = <<>>
    /\ prev = <<>>
    /\ ret = NoRet
    /\ retDims = <<>>

NextDim == DimensionNew \/ DimensionScaled \/ DimensionAdd

SpecDim == InitDim /\ [][NextDim]_vars

(***************************************************************************)
(* Material, CoordSet                                                      *)
(***************************************************************************)
\* Material(name, price, price_quantity): the dataclass has no __post_init__,
\* so every price and every pricing unit is accepted.
Material(name, price, price_quantity) ==
    [st  |-> "ok",
     obj |-> [name |-> name, price |-> price, price_quantity |-> price_quantity]]

\* CoordSet.__post_init__ on c = <<x1, y1, z1, x2, y2, z2>>.
CoordSet_post_init(c) ==
    IF \E i \in 1 .. 6 : ~(c[i] >= 0) THEN "AssertionError" ELSE "ok"

CoordArgs == (-1) .. MaxCoord
PriceArgs == (-1) .. MaxPrice

\* The CoordSet objects that construction returns.
CoordSets == {c \in [1 .. 6 -> CoordArgs] : CoordSet_post_init(c) = "ok"}

\* The Material objects that construction returns ("other" stands for a
\* pricing unit that is no member of Quantity).
Materials ==
    {r.obj : r \in {m \in {Material("m", p, q) : p \in PriceArgs,
                                                 q \in Quantity \cup {"other"}} :
                      m.st = "ok"}}

(***************************************************************************)
(* Layer, LayerMinus, Window, Door                                         *)
(***************************************************************************)
LayerClasses == {"Layer", "LayerMinus", "Window", "Door"}
Openings == {"LayerMinus", "Window", "Door"}

\* Layer(name, material, exterior, connections, coords) of class cls; price is
\* the extra field of Window and Door (0 where the class has none).
NewLayer(cls, name, material, exterior, coords, price) ==
    [cls |-> cls, name |-> name, material |-> material, exterior |-> exterior,
     coords |-> coords, price |-> price]

\* isinstance(obj, Layer)
IsLayer(obj) == obj.cls \in LayerClasses

\* The three Dimensions built by the return statement, left to right; the
\* first failing constructor raises.
DimensionTuple(length, width, height) ==
    LET dl == Dimension("l", length)
        dw == Dimension("w", width)
        dh == Dimension("h", height)
    IN  IF dl.st # "ok" THEN [st |-> dl.st, dims |-> <<>>]
        ELSE IF dw.st # "ok" THEN [st |-> dw.st, dims |-> <<>>]
        ELSE IF dh.st # "ok" THEN [st |-> dh.st, dims |-> <<>>]
        ELSE [st |-> "ok", dims |-> <<dl.obj, dw.obj, dh.obj>>]

\* A plausible slip: the Dimensions of the previous call are kept and
\* returned again.
Layer_dimensions_cached(l, old) ==
    LET length == Abs(l.coords[4] - l.coords[1])
        width  == Abs(l.coords[5] - l.coords[2])
        height == Abs(l.coords[6] - l.coords[3])
    IN  IF old # <<>> THEN [st |-> "ok", dims |-> old]
        ELSE IF width > length
        THEN DimensionTuple(width, length, height)
        ELSE DimensionTuple(length, width, height)

\* l.dimensions(): every call builds three new Dimension objects; the ones a
\* previous call made (old) are not used.
Layer_dimensions(l, old) ==
    LET length == Abs(l.coords[4] - l.coords[1])
        width  == Abs(l.coords[5] - l.coords[2])
        height == Abs(l.coords[6] - l.coords[3])
    IN  IF width > length
        THEN DimensionTuple(width, length, height)
        ELSE DimensionTuple(length, width, height)

\* l.area()
Layer_area(l) ==
    IF l.exterior \in {"xz-", "xz+"}
    THEN [st |-> "ok",
          val |-> Abs(l.coords[4] - l.coords[1]) * Abs(l.coords[6] - l.coords[3])]
    ELSE IF l.exterior \in {"yz-", "yz+"}
    THEN [st |-> "ok",
          val |-> Abs(l.coords[5] - l.coords[2]) * Abs(l.coords[6] - l.coords[3])]
    ELSE IF l.exterior \in {"xy+", "xy-"}
    THEN [st |-> "ok",
          val |-> Abs(l.coords[4] - l.coords[1]) * Abs(l.coords[5] - l.coords[2])]
    ELSE [st |-> "AssertionError", val |-> 0]

RECURSIVE Product(_, _, _)
\* value = d.quantity * value over ds[i..]
Product(ds, i, value) ==
    IF i > Len(ds) THEN value ELSE Product(ds, i + 1, ds[i].quantity * value)

\* The property Layer.volume, evaluated on l.
Layer_volume(l, old) ==
    LET r == Layer_dimensions(l, old)
    IN  IF r.st # "ok" THEN [st |-> r.st, val |-> 0, tmp |-> <<>>]
        ELSE [st |-> "ok", val |-> Product(r.dims, 1, 1), tmp |-> r.dims]

\* LayerMinus.volume(self): the method called.
LayerMinus_volume(l, old) ==
    LET r == Layer_volume(l, old)
    IN  IF r.st # "ok" THEN r ELSE [r EXCEPT !.val = -r.val]

\* The expression l.volume, with no call.  On a plain Layer the property is
\* evaluated; in LayerMinus and its subclasses a plain method of that name
\* replaces the property, and the expression is the bound method.
Layer_volume_attr(l, old) ==
    IF l.cls = "Layer"
    THEN LET r == Layer_volume(l, old)
         IN  [st |-> r.st, tag |-> IF r.st = "ok" THEN "int" ELSE "none",
              val |-> r.val, tmp |-> r.tmp]
    ELSE [st |-> "ok", tag |-> "method", val |-> 0, tmp |-> old]

\* The expression l.volume(): on a plain Layer the int is called.
Layer_volume_call(l, old) ==
    IF l.cls = "Layer"
    THEN LET r == Layer_volume(l, old)
         IN  IF r.st # "ok" THEN r ELSE [r EXCEPT !.st = "TypeError", !.val = 0]
    ELSE LayerMinus_volume(l, old)

RECURSIVE ScaleLoop(_, _, _, _)
\* The loop of Layer.scaled from the i-th Dimension of ds on: ds holds the
\* objects as the loop has left them so far, out the Dimensions appended.
ScaleLoop(ds, i, scale, out) ==
    IF i > Len(ds) THEN [st |-> "ok", dims |-> out, tmp |-> ds]
    ELSE LET s  == Dimension_scaled(ds[i], scale)
             ds2 == [ds EXCEPT ![i] = s.obj]
             n  == Dimension(ds[i].axis, s.val)
         IN  IF s.st # "ok" THEN [st |-> s.st, dims |-> <<>>, tmp |-> ds2]
             ELSE IF n.st # "ok" THEN [st |-> n.st, dims |-> <<>>, tmp |-> ds2]
             ELSE ScaleLoop(ds2, i + 1, scale, Append(out, n.obj))

\* l.scaled(scale): the outcome, the tuple returned and the Dimensions that
\* dimensions() made, as the call leaves them.
Layer_scaled(l, old, scale) ==
    IF ~(scale > 0) THEN [st |-> "AssertionError", dims |-> <<>>, tmp |-> old]
    ELSE LET r == Layer_dimensions(l, old)
         IN  IF r.st # "ok" THEN [st |-> r.st, dims |-> <<>>, tmp |-> <<>>]
             ELSE ScaleLoop(r.dims, 1, scale, <<>>)

\* Layer.cost(self)
Layer_cost(l, old) ==
    IF l.material.price_quantity = "m3"
    THEN LET v == Layer_volume_attr(l, old)
         IN  IF v.st # "ok" THEN [st |-> v.st, val |-> 0]
             ELSE IF v.tag # "int" THEN [st |-> "TypeError", val |-> 0]
             ELSE [st |-> "ok", val |-> v.val * l.material.price]
    ELSE IF l.material.price_quantity = "m2"
    THEN LET a == Layer_area(l)
         IN  IF a.st # "ok" THEN a
             ELSE [st |-> "ok", val |-> a.val * l.material.price]
    ELSE IF l.material.price_quantity = "peace"
    THEN [st |-> "ok", val |-> l.material.price]
    ELSE [st |-> "AssertionError", val |-> 0]

\* Window.cost(self), Door.cost(self)
Window_cost(l) ==
    LET a == Layer_area(l)
    IN  IF a.st # "ok" THEN a ELSE [st |-> "ok", val |-> l.price * a.val]

\* l.cost(), by the class of l.
Cost(l, old) ==
    IF l.cls \in {"Window", "Door"} THEN Window_cost(l) ELSE Layer_cost(l, old)

(***************************************************************************)
(* Operations on one Layer                                                 *)
(***************************************************************************)
DefaultMaterial == Material("m", 1, "m3").obj

\* The layers whose geometry is exercised: every class on every CoordSet.
GeomLayers ==
    {NewLayer(cls, "a", DefaultMaterial, "xz-", c, IF cls \in {"Window", "Door"} THEN 1 ELSE 0) :
        cls \in LayerClasses, c \in CoordSets}

\* The CoordSets whose first corner has three equal coordinates.
DiagCoordSets == {k \in CoordSets : k[1] = k[2] /\ k[2] = k[3]}

\* The layers whose cost is exercised: every Material and exterior ("other"
\* stands for a value that is no member of Side) on the CoordSets above.
CostLayers ==
    {NewLayer(cls, "a", m, e, c, IF cls = "Window" THEN 1 ELSE 0) :
        cls \in {"Layer", "Window"}, m \in Materials, e \in Side \cup {"other"},
        c \in DiagCoordSets}

\* The layers on which scaled() is exercised: every class, same CoordSets.
ScaledLayers ==
    {NewLayer(cls, "a", DefaultMaterial, "xz-", c, IF cls \in {"Window", "Door"} THEN 1 ELSE 0) :
        cls \in LayerClasses, c \in DiagCoordSets}

\* l.dimensions()
LayerDimensions ==
    /\ layer # <<>>
    /\ LET r == Layer_dimensions(layer[1], held) IN
         /\ held' = r.dims
         /\ retDims' = r.dims
         /\ ret' = Ret("Layer.dimensions", 0, r.st,
                       IF r.st = "ok" THEN "tuple" ELSE "none", 0)
    /\ UNCHANGED <<dimObj, layer, nScaled, constructed, layers, prev>>

\* l.volume
LayerVolumeAttr ==
    /\ layer # <<>>
    /\ LET r == Layer_volume_attr(layer[1], held) IN
         /\ held' = r.tmp
         /\ ret' = Ret("Layer.volume", 0, r.st, r.tag, r.val)
    /\ retDims' = <<>>
    /\ UNCHANGED <<dimObj, layer, nScaled, constructed, layers, prev>>

\* l.volume()
LayerVolumeCall ==
    /\ layer # <<>>
    /\ LET r == Layer_volume_call(layer[1], held) IN
         /\ held' = r.tmp
         /\ ret' = Ret("Layer.volume()", 0, r.st,
                       IF r.st = "ok" THEN "int" ELSE "none", r.val)
    /\ retDims' = <<>>
    /\ UNCHANGED <<dimObj, layer, nScaled, constructed, layers, prev>>

\* l.area()
LayerArea ==
    /\ layer # <<>>
    /\ LET r == Layer_area(layer[1]) IN
         ret' = Ret("Layer.area", 0, r.st,
                    IF r.st = "ok" THEN "int" ELSE "none", r.val)
    /\ retDims' = <<>>
    /\ UNCHANGED <<dimObj, layer, held, nScaled, constructed, layers, prev>>

\* l.scaled(s)
LayerScaled ==
    /\ layer # <<>>
    /\ \E s \in ScaleArgs :
         LET r == Layer_scaled(layer[1], held, s) IN
         /\ held' = r.tmp
         /\ retDims' = r.dims
         /\ ret' = Ret("Layer.scaled", s, r.st,
                       IF r.st = "ok" THEN "tuple" ELSE "none", 0)
    /\ nScaled' = IF nScaled = 0 THEN 1 ELSE 2
    /\ UNCHANGED <<dimObj, layer, constructed, layers, prev>>

\* l.cost()
LayerCost ==
    /\ layer # <<>>
    /\ LET r == Cost(layer[1], held) IN
         ret' = Ret("Layer.cost", 0, r.st,
                    IF r.st = "ok" THEN "int" ELSE "none", r.val)
    /\ retDims' = <<>>
    /\ UNCHANGED <<dimObj, layer, held, nScaled, constructed, layers, prev>>

InitLayer ==
    /\ dimObj = <<>>
    /\ layer \in {<<l>> : l \in GeomLayers}
    /\ held = <<>>
    /\ nScaled = 0
    /\ constructed = FALSE
    /\ layers = <<>>
    /\ prev = <<>>
    /\ ret = NoRet
    /\ retDims = <<>>

NextLayer ==
    \/ LayerDimensions
    \/ LayerVolumeAttr
    \/ LayerVolumeCall
    \/ LayerArea

SpecLayer == InitLayer /\ [][NextLayer]_vars

InitScaled ==
    /\ dimObj = <<>>
    /\ layer \in {<<l>> : l \in ScaledLayers}
    /\ held = <<>>
    /\ nScaled = 0
    /\ constructed = FALSE
    /\ layers = <<>>
    /\ prev = <<>>
    /\ ret = NoRet
    /\ retDims = <<>>

NextScaled == LayerScaled \/ LayerDimensions

SpecScaled == InitScaled /\ [][NextScaled]_vars

InitCost ==
    /\ dimObj = <<>>
    /\ layer \in {<<l>> : l \in CostLayers}
    /\ held = <<>>
    /\ nScaled = 0
    /\ constructed = FALSE
    /\ layers = <<>>
    /\ prev = <<>>
    /\ ret = NoRet
    /\ retDims = <<>>

NextCost == LayerCost \/ LayerArea \/ LayerVolumeAttr

SpecCost == InitCost /\ [][NextCost]_vars

(***************************************************************************)
(* Wall                                                                    *)
(***************************************************************************)
\* The objects handed to a Wall: plain layers and windows named a or b, on a
\* box with non-zero extents (width > length before the swap) and on a flat
\* one, and one object that is no Layer.
WallBoxes == {c \in CoordSets : c[1] = 0 /\ c[2] = 0 /\ c[3] = 0 /\ c[4] \in {0, 1}
                                /\ c[5] = 2 /\ c[6] = 1}
WallNames == {"a", "b"}
WallLayers ==
    {NewLayer(cls, n, DefaultMaterial, "xz-", c, IF cls = "Window" THEN 1 ELSE 0) :
        cls \in {"Layer", "Window"}, n \in WallNames, c \in WallBoxes}
NotALayer == NewLayer("str", "a", DefaultMaterial, "xz-", <<0, 0, 0, 0, 0, 0>>, 0)
WallObjects == WallLayers \cup {NotALayer}

RECURSIVE SeqsUpTo(_, _)
\* The sequences over S of length 0 .. n.
SeqsUpTo(S, n) ==
    IF n = 0 THEN {<<>>}
    ELSE LET shorter == SeqsUpTo(S, n - 1)
         IN  shorter \cup {Append(q, x) : q \in {r \in shorter : Len(r) = n - 1}, x \in S}

\* Wall.__post_init__ on _layers = ls.
Wall_post_init(ls) ==
    IF ls = <<>> THEN "AssertionError"
    ELSE IF SelectSeq(ls, LAMBDA x : ~IsLayer(x)) # <<>> THEN "AssertionError"
    ELSE "ok"

\* w.add_layer(obj): the outcome and _layers after the call.
Wall_add_layer(ls, obj) ==
    IF ~IsLayer(obj) THEN [st |-> "AssertionError", layers |-> ls]
    ELSE [st |-> "ok", layers |-> Append(ls, obj)]

\* a == b for two dataclass instances: the same class and equal fields.
DataclassEq(a, b) == a = b

RECURSIVE IndexOf(_, _, _)
\* The first index from i on whose element equals x, 0 when there is none.
IndexOf(ls, x, i) ==
    IF i > Len(ls) THEN 0
    ELSE IF DataclassEq(ls[i], x) THEN i
    ELSE IndexOf(ls, x, i + 1)

\* list.remove(x): the first element equal to x is deleted.
ListRemove(ls, x) ==
    LET i == IndexOf(ls, x, 1)
    IN  [j \in 1 .. (Len(ls) - 1) |-> IF j < i THEN ls[j] ELSE ls[j + 1]]

\* A plausible slip: every layer of that name is removed.
Wall_remove_layer_all(ls, name) ==
    LET layer_to_remove == SelectSeq(ls, LAMBDA l : l.name = name)
    IN  IF layer_to_remove = <<>> THEN [st |-> "AssertionError", layers |-> ls]
        ELSE [st |-> "ok", layers |-> SelectSeq(ls, LAMBDA l : l.name # name)]

\* w.remove_layer(name): the outcome and _layers after the call.
Wall_remove_layer(ls, name) ==
    LET layer_to_remove == SelectSeq(ls, LAMBDA l : l.name = name)
    IN  IF layer_to_remove = <<>> THEN [st |-> "AssertionError", layers |-> ls]
        ELSE [st |-> "ok", layers |-> ListRemove(ls, layer_to_remove[1])]

RECURSIVE Volumes(_, _, _)
\* [layer.volume for layer in ls[i..]] appended to out; the first layer whose
\* volume raises ends the comprehension.
Volumes(ls, i, out) ==
    IF i > Len(ls) THEN [st |-> "ok", vals |-> out]
    ELSE LET v == Layer_volume_attr(ls[i], <<>>)
         IN  IF v.st # "ok" THEN [st |-> v.st, vals |-> <<>>]
             ELSE Volumes(ls, i + 1, Append(out, [tag |-> v.tag, val |-> v.val]))

RECURSIVE Sum(_, _, _)
\* sum(vs): acc + vs[i] + ...; an int plus a bound method is a TypeError.
Sum(vs, i, acc) ==
    IF i > Len(vs) THEN [st |-> "ok", val |-> acc]
    ELSE IF vs[i].tag # "int" THEN [st |-> "TypeError", val |-> 0]
    ELSE Sum(vs, i + 1, acc + vs[i].val)

\* w.volume()
Wall_volume(ls) ==
    LET volumes == Volumes(ls, 1, <<>>)
    IN  IF volumes.st # "ok" THEN [st |-> volumes.st, val |-> 0]
        ELSE Sum(volumes.vals, 1, 0)

\* An int: the value dimension = 0 starts from.
PyInt(n) == [tag |-> "int", axis |-> "", quantity |-> n, is_scaled |-> FALSE]
PyDim(d) == [tag |-> "Dimension", axis |-> d.axis, quantity |-> d.quantity,
             is_scaled |-> d.is_scaled]

\* a += b: int has no addition with a Dimension and Dimension defines no
\* __radd__; Dimension + Dimension is Dimension.__add__.
PyIAdd(a, b) ==
    IF a.tag = "int" THEN [st |-> "TypeError", val |-> a]
    ELSE LET r == Dimension_add(a, b)
         IN  [st |-> r.st, val |-> PyDim(r.obj)]

RECURSIVE AxisSum(_, _, _, _)
\* The inner loop of Wall.dimensions for index i, from layer k on.
AxisSum(ls, i, k, dimension) ==
    IF k > Len(ls) THEN [st |-> "ok", val |-> dimension]
    ELSE LET d == Layer_dimensions(ls[k], <<>>)
         IN  IF d.st # "ok" THEN [st |-> d.st, val |-> dimension]
             ELSE LET s == PyIAdd(dimension, PyDim(d.dims[i]))
                  IN  IF s.st # "ok" THEN s
                      ELSE AxisSum(ls, i, k + 1, s.val)

RECURSIVE Wall_dimensions_from(_, _, _)
\* The outer loop of Wall.dimensions from index i on.
Wall_dimensions_from(ls, i, dimensions) ==
    IF i > 3 THEN [st |-> "ok", dims |-> dimensions]
    ELSE LET s == AxisSum(ls, i, 1, PyInt(0))
         IN  IF s.st # "ok" THEN [st |-> s.st, dims |-> <<>>]
             ELSE Wall_dimensions_from(ls, i + 1, Append(dimensions, s.val))

\* w.dimensions()
Wall_dimensions(ls) == Wall_dimensions_from(ls, 1, <<>>)

\* w = Wall(name, ls)
WallNew ==
    /\ ~constructed
    /\ \E ls \in SeqsUpTo(WallObjects, MaxLayers) :
         LET st == Wall_post_init(ls) IN
         /\ constructed' = (st = "ok")
         /\ layers' = IF st = "ok" THEN ls ELSE <<>>
         /\ prev' = <<>>
         /\ ret' = Ret("Wall", Len(ls), st, "none", 0)
    /\ retDims' = <<>>
    /\ UNCHANGED <<dimObj, layer, held, nScaled>>

\* w.add_layer(obj)
WallAddLayer ==
    /\ constructed
    /\ Len(layers) < MaxLayers
    /\ \E obj \in WallObjects :
         LET r == Wall_add_layer(layers, obj) IN
         /\ layers' = r.layers
         /\ ret' = [Ret("Wall.add_layer", 0, r.st, "none", 0) EXCEPT !.name = obj.name]
    /\ prev' = layers
    /\ retDims' = <<>>
    /\ UNCHANGED <<dimObj, layer, held, nScaled, constructed>>

\* w.remove_layer(name)
WallRemoveLayer ==
    /\ constructed
    /\ \E name \in WallNames :
         LET r == Wall_remove_layer(layers, name) IN
         /\ layers' = r.layers
         /\ ret' = [Ret("Wall.remove_layer", 0, r.st, "none", 0) EXCEPT !.name = name]
    /\ prev' = layers
    /\ retDims' = <<>>
    /\ UNCHANGED <<dimObj, layer, held, nScaled, constructed>>

\* w.volume()
WallVolume ==
    /\ constructed
    /\ LET r == Wall_volume(layers) IN
         ret' = Ret("Wall.volume", 0, r.st, IF r.st = "ok" THEN "int" ELSE "none", r.val)
    /\ prev' = layers
    /\ retDims' = <<>>
    /\ UNCHANGED <<dimObj, layer, held, nScaled, constructed, layers>>

\* w.dimensions()
WallDimensions ==
    /\ constructed
    /\ LET r == Wall_dimensions(layers) IN
         /\ ret' = Ret("Wall.dimensions", 0, r.st, IF r.st = "ok" THEN "list" ELSE "none", 0)
         /\ retDims' = r.dims
    /\ prev' = layers
    /\ UNCHANGED <<dimObj, layer, held, nScaled, constructed, layers>>

InitWall ==
    /\ dimObj = <<>>
    /\ layer = <<>>
    /\ held = <<>>
    /\ nScaled = 0
    /\ constructed = FALSE
    /\ layers = <<>>
    /\ prev = <<>>
    /\ ret = NoRet
    /\ retDims = <<>>

NextWall ==
    \/ WallNew
    \/ WallAddLayer
    \/ WallRemoveLayer
    \/ WallVolume
    \/ WallDimensions

SpecWall == InitWall /\ [][NextWall]_vars

(***************************************************************************)
(* The quantities the statements below are written in: the raw extents of *)
(* a layer's box and their product.                                        *)
(***************************************************************************)
Dx(l) == Abs(l.coords[4] - l.coords[1])
Dy(l) == Abs(l.coords[5] - l.coords[2])
Dz(l) == Abs(l.coords[6] - l.coords[3])
BoxVolume(l) == Dx(l) * Dy(l) * Dz(l)
NonZeroExtents(l) == Dx(l) > 0 /\ Dy(l) > 0 /\ Dz(l) > 0
Larger(a, b) == IF a > b THEN a ELSE b
Smaller(a, b) == IF a > b THEN b ELSE a

RECURSIVE SignedVolumeSum(_, _)
\* The sum over ls[i..] of +BoxVolume for a plain Layer, -BoxVolume for an opening.
SignedVolumeSum(ls, i) ==
    IF i > Len(ls) THEN 0
    ELSE (IF ls[i].cls \in Openings THEN -BoxVolume(ls[i]) ELSE BoxVolume(ls[i]))
         + SignedVolumeSum(ls, i + 1)

RECURSIVE QuantitySum(_, _, _)
\* The sum over ls[k..] of the canonical quantity on axis i (1 length, 2 width,
\* 3 height).
QuantitySum(ls, i, k) ==
    IF k > Len(ls) THEN 0
    ELSE (IF i = 1 THEN Larger(Dx(ls[k]), Dy(ls[k]))
          ELSE IF i = 2 THEN Smaller(Dx(ls[k]), Dy(ls[k]))
          ELSE Dz(ls[k]))
         + QuantitySum(ls, i, k + 1)

\* How many layers of ls are named n.
NameCount(ls, n) == Cardinality({i \in 1 .. Len(ls) : ls[i].name = n})

(***************************************************************************)
(* C1. Wall.volume() returns the sum of its layers' volumes, +|dx|*|dy|*  *)
(* |dz| for a plain Layer and the negation for an opening, also when the  *)
(* wall holds openings.  Stated on walls whose boxes all have non-zero    *)
(* extents.                                                                *)
(***************************************************************************)
C1_WallVolumeIsSignedSum ==
    (/\ ret.op = "Wall.volume"
     /\ \A i \in 1 .. Len(layers) : NonZeroExtents(layers[i]))
        => /\ ret.st = "ok"
           /\ ret.tag = "int"
           /\ ret.val = SignedVolumeSum(layers, 1)

(***************************************************************************)
(* C2. On a box with non-zero extents, the expression o.volume of an      *)
(* opening o is a number, the negation of the volume of the plain Layer   *)
(* on the same box.                                                        *)
(***************************************************************************)
C2_OpeningVolumeAttrNegates ==
    (/\ layer # <<>>
     /\ ret.op = "Layer.volume"
     /\ layer[1].cls \in Openings
     /\ NonZeroExtents(layer[1]))
        => /\ ret.st = "ok"
           /\ ret.tag = "int"
           /\ ret.val = -BoxVolume(layer[1])

(***************************************************************************)
(* C3. For every constructed CoordSet, flat boxes included, the volume of *)
(* a plain Layer is |x2-x1| * |y2-y1| * |z2-z1| and reading it never      *)
(* fails.                                                                  *)
(***************************************************************************)
C3_LayerVolumeTotal ==
    (/\ layer # <<>>
     /\ ret.op = "Layer.volume"
     /\ layer[1].cls = "Layer")
        => /\ ret.st = "ok"
           /\ ret.tag = "int"
           /\ ret.val = BoxVolume(layer[1])

(***************************************************************************)
(* C4. Scale-once law of one Dimension instance: a new Dimension is       *)
(* unscaled; a scaled(f) call with f <= 0 fails and leaves the flag as    *)
(* it was; the first call with f > 0 returns quantity * f and sets the    *)
(* flag; every call on a flagged instance fails; no call changes the      *)
(* quantity or the axis.                                                   *)
(***************************************************************************)
C4_ScaleOnce ==
    [][ /\ (ret'.op = "Dimension" /\ ret'.st = "ok" /\ dimObj' # dimObj)
            => ~dimObj'[1].is_scaled
        /\ (ret'.op = "Dimension.scaled" /\ <<dimObj, ret>>' # <<dimObj, ret>>)
            => LET d  == dimObj[1]
                   d2 == dimObj'[1]
                   f  == ret'.arg
               IN  /\ d2.quantity = d.quantity
                   /\ d2.axis = d.axis
                   /\ IF f <= 0
                      THEN ret'.st # "ok" /\ d2.is_scaled = d.is_scaled
                      ELSE IF d.is_scaled
                      THEN ret'.st # "ok" /\ d2.is_scaled
                      ELSE /\ ret'.st = "ok"
                           /\ ret'.tag = "int"
                           /\ ret'.val = d.quantity * f
                           /\ d2.is_scaled
      ]_vars

\* An instance that was scaled once and whose later call, with a positive
\* factor, failed.
C4_Witness ==
    /\ dimObj # <<>>
    /\ dimObj[1].is_scaled
    /\ ret.op = "Dimension.scaled"
    /\ ret.arg > 0
    /\ ret.st = "AssertionError"

(***************************************************************************)
(* C5 as stated. remove_layer(n) on a wall with no layer named n fails    *)
(* and leaves the list as it was; otherwise it removes the first layer    *)
(* named n, the list is one shorter, the other layers keep their order,   *)
(* and no layer named n is left, also where two layers share the name.    *)
(***************************************************************************)
C5_RemoveLeavesNoSuchName ==
    ret.op = "Wall.remove_layer"
        => IF NameCount(prev, ret.name) = 0
           THEN ret.st # "ok" /\ layers = prev
           ELSE /\ ret.st = "ok"
                /\ Len(layers) = Len(prev) - 1
                /\ \E i \in 1 .. Len(prev) :
                     /\ prev[i].name = ret.name
                     /\ \A j \in 1 .. (i - 1) : prev[j].name # ret.name
                     /\ layers = [j \in 1 .. (Len(prev) - 1) |->
                                    IF j < i THEN prev[j] ELSE prev[j + 1]]
                /\ NameCount(layers, ret.name) = 0

(***************************************************************************)
(* C5 amended. remove_layer(n) on a wall with no layer named n fails and  *)
(* leaves the list as it was; otherwise it removes the first layer named  *)
(* n and only that one: the list is one shorter, the other layers keep    *)
(* their order, and one layer fewer is named n (none is left exactly when *)
(* one layer had the name).                                                *)
(***************************************************************************)
C5_RemoveFirstMatch ==
    ret.op = "Wall.remove_layer"
        => IF NameCount(prev, ret.name) = 0
           THEN ret.st # "ok" /\ layers = prev
           ELSE /\ ret.st = "ok"
                /\ Len(layers) = Len(prev) - 1
                /\ \E i \in 1 .. Len(prev) :
                     /\ prev[i].name = ret.name
                     /\ \A j \in 1 .. (i - 1) : prev[j].name # ret.name
                     /\ layers = [j \in 1 .. (Len(prev) - 1) |->
                                    IF j < i THEN prev[j] ELSE prev[j + 1]]
                /\ NameCount(layers, ret.name) = NameCount(prev, ret.name) - 1

\* A removal from a wall that held the name twice, behind a layer of another
\* name: one layer of that name is left.
C5_Witness ==
    /\ ret.op = "Wall.remove_layer"
    /\ ret.st = "ok"
    /\ Len(prev) = 3
    /\ prev[1].name # ret.name
    /\ NameCount(prev, ret.name) = 2
    /\ NameCount(layers, ret.name) = 1
    /\ layers[1] = prev[1]
    /\ layers[2] = prev[3]

(***************************************************************************)
(* C6. On a wall of one or more layers with non-zero extents,             *)
(* Wall.dimensions() succeeds and returns three Dimensions, on the axes   *)
(* length, width, height in that order, each with the sum over the layers *)
(* of that axis's canonical quantity.                                      *)
(***************************************************************************)
C6_WallDimensionsSums ==
    (/\ ret.op = "Wall.dimensions"
     /\ Len(layers) >= 1
     /\ \A k \in 1 .. Len(layers) : NonZeroExtents(layers[k]))
        => /\ ret.st = "ok"
           /\ Len(retDims) = 3
           /\ \A i \in 1 .. 3 :
                /\ retDims[i].tag = "Dimension"
                /\ retDims[i].axis = <<"l", "w", "h">>[i]
                /\ retDims[i].quantity = QuantitySum(layers, i, 1)

(***************************************************************************)
(* C7. cost() of a plain Layer with material price p is volume * p for    *)
(* the volume unit, area * p for the area unit (the area of the exterior  *)
(* side), p for the piece unit whatever the coordinates, and a failure    *)
(* for any other pricing unit.                                             *)
(***************************************************************************)
C7_CostDispatch ==
    (/\ layer # <<>>
     /\ ret.op = "Layer.cost"
     /\ layer[1].cls = "Layer")
        => LET l == layer[1]
               p == l.material.price
               u == l.material.price_quantity
           IN  /\ u = "m3" => ret.st = "ok" /\ ret.val = BoxVolume(l) * p
               /\ (u = "m2" /\ l.exterior \in {"xz-", "xz+"})
                     => ret.st = "ok" /\ ret.val = Dx(l) * Dz(l) * p
               /\ (u = "m2" /\ l.exterior \in {"yz-", "yz+"})
                     => ret.st = "ok" /\ ret.val = Dy(l) * Dz(l) * p
               /\ (u = "m2" /\ l.exterior \in {"xy+", "xy-"})
                     => ret.st = "ok" /\ ret.val = Dx(l) * Dy(l) * p
               /\ u = "peace" => ret.st = "ok" /\ ret.val = p
               /\ u \notin Quantity => ret.st # "ok"

(***************************************************************************)
(* C8. Invalid values are rejected where they are given, a non-positive    *)
(* price by Material among them: so the material of a layer whose cost()  *)
(* has returned has a price > 0.                                           *)
(***************************************************************************)
C8_NoNonPositivePriceReachesCost ==
    (layer # <<>> /\ ret.op = "Layer.cost" /\ ret.st = "ok")
        => layer[1].material.price > 0

(***************************************************************************)
(* C9. Layer.scaled(s) with s > 0 on a Layer with non-zero extents        *)
(* succeeds on every call, the first and the later ones: it returns the   *)
(* Dimensions on length, width, height with quantities s * length,        *)
(* s * width, s * height, each unscaled, and leaves the Layer as it was.  *)
(***************************************************************************)
C9_LayerScaledRepeatable ==
    [][ (/\ ret'.op = "Layer.scaled"
         /\ <<ret, retDims, held, nScaled>>' # <<ret, retDims, held, nScaled>>
         /\ ret'.arg > 0
         /\ NonZeroExtents(layer[1]))
            => LET l == layer[1]
                   s == ret'.arg
               IN  /\ ret'.st = "ok"
                   /\ retDims' =
                        << [axis |-> "l", quantity |-> s * Larger(Dx(l), Dy(l)),
                            is_scaled |-> FALSE],
                           [axis |-> "w", quantity |-> s * Smaller(Dx(l), Dy(l)),
                            is_scaled |-> FALSE],
                           [axis |-> "h", quantity |-> s * Dz(l),
                            is_scaled |-> FALSE] >>
                   /\ layer' = layer
      ]_vars

\* A later call of scaled(2), on a box that is wider than long, that
\* succeeded.
C9_Witness ==
    /\ layer # <<>>
    /\ nScaled = 2
    /\ ret.op = "Layer.scaled"
    /\ ret.arg = 2
    /\ ret.st = "ok"
    /\ Dy(layer[1]) > Dx(layer[1])
    /\ Dx(layer[1]) > 0
    /\ Dz(layer[1]) > 0
    /\ Len(retDims) = 3
    /\ retDims[1].quantity = 2 * Dy(layer[1])

(***************************************************************************)
(* C10. A constructed Wall holds one or more elements, all of them        *)
(* Layers, in every state add_layer and remove_layer can bring it to.     *)
(***************************************************************************)
C10_WallStaysValid ==
    constructed
        => /\ Len(layers) >= 1
           /\ \A i \in 1 .. Len(layers) : IsLayer(layers[i])

====
